---- MODULE Spec2Model ----
(***************************************************************************)
(* A model of carton/cart.py: the session-backed cart (Cart, CartItem).    *)
(*                                                                         *)
(* A Python dict is modelled as a sequence of <<name, value>> pairs with   *)
(* distinct names (kargs, the "key" object of a stored record) or as a     *)
(* TLA+ function (Cart._items_dict, the session).  A Decimal is modelled   *)
(* by its numeric value, which is what Decimal.__eq__ compares.            *)
(***************************************************************************)
EXTENDS Integers, Sequences, FiniteSets, TLC

VARIABLES
    session,    \* session store: session key -> stored text, or Absent
    modified,   \* session.modified
    carts,      \* Cart instance -> NoCart | [session_key, _items_dict]
    catalog,    \* pks of the products the filtered queryset returns
    last        \* history: the last call and its outcome

vars == <<session, modified, carts, catalog, last>>

----------------------------------------------------------------------------
(* Bounds and input sets *)

\* cap on Cart.count (the sum of the quantities) a successful add may reach
MaxCount == 2

Products == {1, 2}

None == [type |-> "NoneType"]

\* a decimal text of n hundredths ('5.50' is Text(550), '0.10' is Text(10))
Text(n) == [type |-> "str", cents |-> n]

\* the quantity argument of add, after int()
Quantities == {-1, 0, 1, 2}

\* the price argument of add
Prices == {None, Text(550), Text(10)}

\* the product and the keyword arguments (in call order) of add / remove /
\* remove_single: product 1 plain and in two sizes, product 2 plain
LineInputs ==
    { <<1, <<>>>>, <<1, <<<<"size", "M">>>>>>, <<1, <<<<"size", "L">>>>>>, <<2, <<>>>> }

\* attribute names in the order Python's sorted() puts them
NameOrder == <<"_pk", "color", "size">>

----------------------------------------------------------------------------
(* Python dicts as sequences of pairs *)

DictHas(d, k) == \E i \in 1..Len(d) : d[i][1] = k

DictGet(d, k) == d[CHOOSE i \in 1..Len(d) : d[i][1] = k][2]

RECURSIVE DictReplace(_, _, _)
DictReplace(d, k, v) ==
    IF d = <<>> THEN <<>>
    ELSE <<IF Head(d)[1] = k THEN <<k, v>> ELSE Head(d)>> \o DictReplace(Tail(d), k, v)

\* d[k] = v
DictSet(d, k, v) == IF DictHas(d, k) THEN DictReplace(d, k, v) ELSE Append(d, <<k, v>>)

RECURSIVE SortedItems(_, _)
SortedItems(d, names) ==
    IF names = <<>> THEN <<>>
    ELSE (IF DictHas(d, Head(names)) THEN <<<<Head(names), DictGet(d, Head(names))>>>> ELSE <<>>)
         \o SortedItems(d, Tail(names))

\* _dict2key: tuple(sorted(dct.items())); names are distinct, so the pairs
\* are ordered by name alone
_dict2key(dct) == SortedItems(dct, NameOrder)

----------------------------------------------------------------------------
(* Decimal, float and the JSON number between them.  A Decimal is          *)
(* [cents, exact]: the value cents/100 when exact, and otherwise the value *)
(* of the double nearest to cents/100, which then differs from cents/100.  *)

\* simplejson.dumps (use_decimal is on by default) writes a Decimal as the
\* JSON number str(d)
NumberLiteral(d) == [type |-> "number", of |-> d]

\* simplejson.loads (use_decimal is off by default) reads a JSON number with
\* a fraction as a float: the double nearest to the literal's value.  For a
\* Decimal that already is the expansion of a double, that is the same double.
FloatOfLiteral(l) == [type |-> "float", nearest |-> l.of.cents]

\* Decimal(price).  Of a text: exactly the value written.  Of a float: the
\* exact binary expansion of the double; the double nearest to n/100 is
\* n/100 itself iff n/100 is a dyadic rational, that is iff 25 divides n.
Decimal(price) ==
    IF price.type = "float"
    THEN [cents |-> price.nearest, exact |-> (price.nearest % 25 = 0)]
    ELSE [cents |-> price.cents, exact |-> TRUE]

----------------------------------------------------------------------------
(* CartItem *)

\* CartItem.__init__; quantity arrives as an integer, so int() keeps it
CartItem(product, quantity, price) ==
    [product |-> product, quantity |-> quantity, price |-> Decimal(price)]

to_dict(self) == [quantity |-> self.quantity, price |-> self.price]

\* a subtotal that forgets the quantity
subtotal_of_one_unit(self) == [cents |-> self.price.cents, exact |-> self.price.exact]

\* CartItem.subtotal: price * quantity in Decimal arithmetic.  Of an exact
\* price it is exactly cents * quantity hundredths; of the expansion of a
\* double it is that product as Decimal arithmetic rounds it, which is
\* again not a whole number of hundredths.
subtotal(self) == [cents |-> self.price.cents * self.quantity, exact |-> self.price.exact]

\* val.__dict__.update(item['key']): every name of the stored key becomes an
\* attribute of the item, replacing product, quantity or price if it bears
\* that name; other names only add attributes that nothing reads.
dict_update(val, key) ==
    [product  |-> IF DictHas(key, "product") THEN DictGet(key, "product") ELSE val.product,
     quantity |-> IF DictHas(key, "quantity") THEN DictGet(key, "quantity") ELSE val.quantity,
     price    |-> IF DictHas(key, "price") THEN DictGet(key, "price") ELSE val.price]

----------------------------------------------------------------------------
(* Python dicts as functions: Cart._items_dict and the session *)

EmptyDict == [k \in {} |-> k]

\* d[k] = v
Put(d, k, v) == [x \in DOMAIN d \cup {k} |-> IF x = k THEN v ELSE d[x]]

\* del d[k]
Del(d, k) == [x \in DOMAIN d \ {k} |-> d[x]]

\* d.items(): the entries in the dict's iteration order, a fixed order that
\* the contents of the dict determine
RECURSIVE ItemsOf(_, _)
ItemsOf(d, keys) ==
    IF keys = {} THEN <<>>
    ELSE LET k == CHOOSE x \in keys : TRUE
         IN  <<<<k, d[k]>>>> \o ItemsOf(d, keys \ {k})

_items_gen(items) == ItemsOf(items, DOMAIN items)

----------------------------------------------------------------------------
(* Serialization *)

RECURSIVE Representation(_)
Representation(entries) ==
    IF entries = <<>> THEN <<>>
    ELSE <<[key |-> Head(entries)[1], value |-> to_dict(Head(entries)[2])]>>
         \o Representation(Tail(entries))

\* sj.dumps(ret): an array of objects; the key object keeps its pairs, the
\* quantity is written as an integer, the price as a number literal
RECURSIVE sj_dumps(_)
sj_dumps(ret) ==
    IF ret = <<>> THEN <<>>
    ELSE <<[key   |-> Head(ret).key,
            value |-> [quantity |-> Head(ret).value.quantity,
                       price    |-> NumberLiteral(Head(ret).value.price)]]>>
         \o sj_dumps(Tail(ret))

\* sj.loads(text)
RECURSIVE sj_loads(_)
sj_loads(text) ==
    IF text = <<>> THEN <<>>
    ELSE <<[key   |-> Head(text).key,
            value |-> [quantity |-> Head(text).value.quantity,
                       price    |-> FloatOfLiteral(Head(text).value.price)]]>>
         \o sj_loads(Tail(text))

\* Cart.cart_serializable: {k: v for k, v in key} is the key's own pairs
cart_serializable(items) == sj_dumps(Representation(_items_gen(items)))

----------------------------------------------------------------------------
(* Cart: construction *)

\* the query without the lookup filter and without the catalog
products_queryset_unfiltered(cat, ids_in_cart) == ids_in_cart

\* the catalog query of Cart.__init__: get_queryset() applies the
\* CART_PRODUCT_LOOKUP filter (the products of cat pass it), then
\* .filter(pk__in=ids_in_cart)
products_queryset(cat, ids_in_cart) == cat \cap ids_in_cart

\* set(item['key']['_pk'] for item in cart_representation)
ids_in(cart_representation) ==
    {DictGet(cart_representation[i].key, "_pk") : i \in 1..Len(cart_representation)}

\* the for loop of Cart.__init__ over the records whose product was found
RECURSIVE rebuild(_, _, _)
rebuild(items, cart_representation, queryset) ==
    IF cart_representation = <<>> THEN items
    ELSE LET item == Head(cart_representation)
             pk   == DictGet(item.key, "_pk")
             val  == CartItem(pk, item.value.quantity, item.value.price)
         IN  IF pk \in queryset
             THEN rebuild(Put(items, _dict2key(item.key), dict_update(val, item.key)),
                          Tail(cart_representation), queryset)
             ELSE rebuild(items, Tail(cart_representation), queryset)

\* Cart.__init__(session, session_key): the new Cart
Cart(sess, session_key, cat) ==
    [session_key |-> session_key,
     _items_dict |->
        IF session_key \in DOMAIN sess
        THEN LET cart_representation == sj_loads(sess[session_key])
             IN  rebuild(EmptyDict, cart_representation,
                         products_queryset(cat, ids_in(cart_representation)))
        ELSE EmptyDict]

----------------------------------------------------------------------------
(* Cart: queries *)

RECURSIVE SumQuantity(_)
SumQuantity(entries) ==
    IF entries = <<>> THEN 0 ELSE Head(entries)[2].quantity + SumQuantity(Tail(entries))

count(self) == SumQuantity(_items_gen(self._items_dict))

unique_count(self) == Cardinality(DOMAIN self._items_dict)

RECURSIVE SumSubtotal(_)
SumSubtotal(entries) ==
    IF entries = <<>> THEN [cents |-> 0, exact |-> TRUE]
    ELSE LET s == subtotal(Head(entries)[2])
             r == SumSubtotal(Tail(entries))
         IN  [cents |-> s.cents + r.cents, exact |-> s.exact /\ r.exact]

total(self) == SumSubtotal(_items_gen(self._items_dict))

----------------------------------------------------------------------------
(* Cart: mutations.  Each yields the cart, the session and its flag as the *)
(* call leaves them, and the exception it raised ("" when it returned).    *)

Outcome(self, sess, mod, raised) ==
    [self |-> self, session |-> sess, modified |-> mod, raised |-> raised]

\* update_session that keeps the stored records the cart has no line for
update_session_keeps_unloaded(self, sess) ==
    LET held(record) == _dict2key(record.key) \in DOMAIN self._items_dict
        unloaded(record) == ~held(record)
        before == IF self.session_key \in DOMAIN sess
                  THEN sess[self.session_key] ELSE <<>>
    IN  Outcome(self,
                Put(sess, self.session_key,
                    cart_serializable(self._items_dict) \o SelectSeq(before, unloaded)),
                TRUE, "")

\* update_session that leaves a text already stored under the key alone
update_session_keeps_first_write(self, sess) ==
    IF self.session_key \in DOMAIN sess /\ sess[self.session_key] # <<>>
    THEN Outcome(self, sess, TRUE, "")
    ELSE Outcome(self, Put(sess, self.session_key, cart_serializable(self._items_dict)),
                 TRUE, "")

\* update_session that writes under the configured key, whatever key the
\* cart was built with
update_session_under_default_key(self, sess) ==
    Outcome(self, Put(sess, "CART", cart_serializable(self._items_dict)), TRUE, "")

\* Cart.update_session
update_session(self, sess) ==
    Outcome(self, Put(sess, self.session_key, cart_serializable(self._items_dict)), TRUE, "")

\* add with the quantity test off by one: quantity 0 passes
add_accepts_zero(self, sess, mod, product, price, quantity, kargs) ==
    LET key == _dict2key(DictSet(kargs, "_pk", product))
    IN  IF quantity < 0
        THEN Outcome(self, sess, mod, "ValueError: quantity")
        ELSE IF key \in DOMAIN self._items_dict
        THEN update_session(
                [self EXCEPT !._items_dict[key].quantity = @ + quantity], sess)
        ELSE IF price = None
        THEN Outcome(self, sess, mod, "ValueError: price")
        ELSE update_session(
                [self EXCEPT !._items_dict =
                    Put(@, key, CartItem(product, quantity, price))], sess)

\* add that tests the quantity only when it is about to create a line
add_checks_new_line_only(self, sess, mod, product, price, quantity, kargs) ==
    LET key == _dict2key(DictSet(kargs, "_pk", product))
    IN  IF key \in DOMAIN self._items_dict
        THEN update_session(
                [self EXCEPT !._items_dict[key].quantity = @ + quantity], sess)
        ELSE IF quantity < 1
        THEN Outcome(self, sess, mod, "ValueError: quantity")
        ELSE IF price = None
        THEN Outcome(self, sess, mod, "ValueError: price")
        ELSE update_session(
                [self EXCEPT !._items_dict =
                    Put(@, key, CartItem(product, quantity, price))], sess)

\* add that saves the session before it looks at the price
add_saves_before_price_test(self, sess, mod, product, price, quantity, kargs) ==
    LET key == _dict2key(DictSet(kargs, "_pk", product))
    IN  IF quantity < 1
        THEN Outcome(self, sess, mod, "ValueError: quantity")
        ELSE IF key \in DOMAIN self._items_dict
        THEN update_session(
                [self EXCEPT !._items_dict[key].quantity = @ + quantity], sess)
        ELSE IF price = None
        THEN [update_session(self, sess) EXCEPT !.raised = "ValueError: price"]
        ELSE update_session(
                [self EXCEPT !._items_dict =
                    Put(@, key, CartItem(product, quantity, price))], sess)

\* add that keys a line by the product alone
add_keyed_by_product(self, sess, mod, product, price, quantity, kargs) ==
    LET key == _dict2key(<<<<"_pk", product>>>>)
    IN  IF quantity < 1
        THEN Outcome(self, sess, mod, "ValueError: quantity")
        ELSE IF key \in DOMAIN self._items_dict
        THEN update_session(
                [self EXCEPT !._items_dict[key].quantity = @ + quantity], sess)
        ELSE IF price = None
        THEN Outcome(self, sess, mod, "ValueError: price")
        ELSE update_session(
                [self EXCEPT !._items_dict =
                    Put(@, key, CartItem(product, quantity, price))], sess)

\* add that takes the price of the call for an existing line too
add_reprices(self, sess, mod, product, price, quantity, kargs) ==
    LET key == _dict2key(DictSet(kargs, "_pk", product))
    IN  IF quantity < 1
        THEN Outcome(self, sess, mod, "ValueError: quantity")
        ELSE IF key \in DOMAIN self._items_dict
        THEN update_session(
                [self EXCEPT !._items_dict[key] =
                    IF price = None THEN [@ EXCEPT !.quantity = @ + quantity]
                    ELSE CartItem(product, @.quantity + quantity, price)], sess)
        ELSE IF price = None
        THEN Outcome(self, sess, mod, "ValueError: price")
        ELSE update_session(
                [self EXCEPT !._items_dict =
                    Put(@, key, CartItem(product, quantity, price))], sess)

\* add that lets a _pk passed by the caller stand in the key
add_keeps_callers_pk(self, sess, mod, product, price, quantity, kargs) ==
    LET key == _dict2key(IF DictHas(kargs, "_pk") THEN kargs
                         ELSE DictSet(kargs, "_pk", product))
    IN  IF quantity < 1
        THEN Outcome(self, sess, mod, "ValueError: quantity")
        ELSE IF key \in DOMAIN self._items_dict
        THEN update_session(
                [self EXCEPT !._items_dict[key].quantity = @ + quantity], sess)
        ELSE IF price = None
        THEN Outcome(self, sess, mod, "ValueError: price")
        ELSE update_session(
                [self EXCEPT !._items_dict =
                    Put(@, key, CartItem(product, quantity, price))], sess)

\* Cart.add
add(self, sess, mod, product, price, quantity, kargs) ==
    LET key == _dict2key(DictSet(kargs, "_pk", product))
    IN  IF quantity < 1
        THEN Outcome(self, sess, mod, "ValueError: quantity")
        ELSE IF key \in DOMAIN self._items_dict
        THEN update_session(
                [self EXCEPT !._items_dict[key].quantity = @ + quantity], sess)
        ELSE IF price = None
        THEN Outcome(self, sess, mod, "ValueError: price")
        ELSE update_session(
                [self EXCEPT !._items_dict =
                    Put(@, key, CartItem(product, quantity, price))], sess)

\* remove that saves the session before it deletes the line
remove_saves_first(self, sess, mod, product, kargs) ==
    LET key == _dict2key(DictSet(kargs, "_pk", product))
    IN  IF key \in DOMAIN self._items_dict
        THEN [update_session(self, sess) EXCEPT !.self._items_dict = Del(@, key)]
        ELSE Outcome(self, sess, mod, "")

\* remove that saves the session whether or not it found the line
remove_always_saves(self, sess, mod, product, kargs) ==
    LET key == _dict2key(DictSet(kargs, "_pk", product))
    IN  update_session([self EXCEPT !._items_dict = Del(@, key)], sess)

\* Cart.remove
remove(self, sess, mod, product, kargs) ==
    LET key == _dict2key(DictSet(kargs, "_pk", product))
    IN  IF key \in DOMAIN self._items_dict
        THEN update_session([self EXCEPT !._items_dict = Del(@, key)], sess)
        ELSE Outcome(self, sess, mod, "")

\* Cart.remove_single: line 125 calls dict2key, a name the module does not
\* define (it defines _dict2key), so the call raises NameError there and the
\* lines after it never run
remove_single(self, sess, mod, product, kargs) ==
    Outcome(self, sess, mod, "NameError: dict2key")

\* Cart.clear
clear(self, sess, mod) ==
    update_session([self EXCEPT !._items_dict = EmptyDict], sess)

----------------------------------------------------------------------------
(* The state machine *)

\* the session key a Cart is built with: carton_settings.CART_SESSION_KEY
\* when none is passed
DefaultSessionKey == "CART"

\* the history of the last call: the method, the exception it raised ("" when
\* it returned) and whether the line key it addressed was in the cart
Call(op, raised, hit) == [op |-> op, raised |-> raised, hit |-> hit]

\* whether c holds a line for (product, kargs)
Holds(c, product, kargs) ==
    _dict2key(DictSet(kargs, "_pk", product)) \in DOMAIN carts[c]._items_dict

Init ==
    /\ session = EmptyDict
    /\ modified = FALSE
    /\ carts = EmptyDict
    /\ catalog = Products
    /\ last = Call("start", "", FALSE)

\* what a call on the instance c leaves behind
Return(c, out, call) ==
    /\ carts' = Put(carts, c, out.self)
    /\ session' = out.session
    /\ modified' = out.modified
    /\ last' = call
    /\ UNCHANGED catalog

\* construction that writes the reconciled lines back to the session
Construct_saves(c, session_key) ==
    Return(c, update_session(Cart(session, session_key, catalog), session),
           Call("init", "", FALSE))

\* c = Cart(session, session_key)
Construct(c, session_key) ==
    Return(c, Outcome(Cart(session, session_key, catalog), session, modified, ""),
           Call("init", "", FALSE))

\* c.add(product, price, quantity, **kargs)
Add(c, product, price, quantity, kargs) ==
    /\ c \in DOMAIN carts
    /\ \E out \in {add(carts[c], session, modified, product, price, quantity, kargs)} :
           /\ count(out.self) <= MaxCount
           /\ Return(c, out, Call("add", out.raised, Holds(c, product, kargs)))

\* c.remove(product, **kargs)
Remove(c, product, kargs) ==
    /\ c \in DOMAIN carts
    /\ \E out \in {remove(carts[c], session, modified, product, kargs)} :
           Return(c, out, Call("remove", out.raised, Holds(c, product, kargs)))

\* c.remove_single(product, **kargs)
RemoveSingle(c, product, kargs) ==
    /\ c \in DOMAIN carts
    /\ \E out \in {remove_single(carts[c], session, modified, product, kargs)} :
           Return(c, out, Call("remove_single", out.raised, Holds(c, product, kargs)))

\* c.clear()
Clear(c) ==
    /\ c \in DOMAIN carts
    /\ \E out \in {clear(carts[c], session, modified)} :
           Return(c, out, Call("clear", out.raised, FALSE))

\* the request ends: the framework stores the session, the next request
\* finds its flag cleared, and the request's Cart objects are gone
RequestEnd ==
    /\ carts' = EmptyDict
    /\ modified' = FALSE
    /\ last' = Call("request_end", "", FALSE)
    /\ UNCHANGED <<session, catalog>>

\* between requests products are deleted, restored, or stop or start
\* passing the lookup filter
CatalogChange(cat) ==
    /\ DOMAIN carts = {}
    /\ cat # catalog
    /\ catalog' = cat
    /\ last' = Call("catalog", "", FALSE)
    /\ UNCHANGED <<session, modified, carts>>

Next ==
    \/ Construct("c1", DefaultSessionKey)
    \/ \E line \in LineInputs, price \in Prices, quantity \in Quantities :
          Add("c1", line[1], price, quantity, line[2])
    \/ \E line \in LineInputs : Remove("c1", line[1], line[2])
    \/ \E line \in LineInputs : RemoveSingle("c1", line[1], line[2])
    \/ Clear("c1")
    \/ RequestEnd
    \/ \E cat \in SUBSET Products : CatalogChange(cat)

Spec == Init /\ [][Next]_vars

----------------------------------------------------------------------------
(* The same cart, called with keyword arguments in either order and with a *)
(* keyword argument named _pk                                              *)

\* product 1 with color and size given in both orders, product 1 with a
\* size and a caller's own _pk, product 2 plain
KargsLineInputs ==
    { <<1, <<<<"color", "R">>, <<"size", "M">>>>>>,
      <<1, <<<<"size", "M">>, <<"color", "R">>>>>>,
      <<1, <<<<"_pk", 2>>, <<"size", "L">>>>>>,
      <<2, <<>>>> }

NextKargs ==
    \/ Construct("c1", DefaultSessionKey)
    \/ \E line \in KargsLineInputs, price \in Prices, quantity \in Quantities :
          Add("c1", line[1], price, quantity, line[2])
    \/ \E line \in KargsLineInputs : Remove("c1", line[1], line[2])
    \/ \E line \in KargsLineInputs : RemoveSingle("c1", line[1], line[2])
    \/ Clear("c1")
    \/ RequestEnd
    \/ \E cat \in SUBSET Products : CatalogChange(cat)

SpecKargs == Init /\ [][NextKargs]_vars

----------------------------------------------------------------------------
(* Two carts in one session under two session keys: c1 under the default   *)
(* key takes product 1, c2 under "WISHLIST" takes product 2                *)

WishlistKey == "WISHLIST"

CartLineInputs == { <<1, <<>>>>, <<1, <<<<"size", "M">>>>>> }

WishlistLineInputs == { <<2, <<>>>> }

TwoPrices == {None, Text(10)}

NextTwoKeys ==
    \/ Construct("c1", DefaultSessionKey)
    \/ Construct("c2", WishlistKey)
    \/ \E line \in CartLineInputs, price \in TwoPrices, quantity \in Quantities :
          Add("c1", line[1], price, quantity, line[2])
    \/ \E line \in WishlistLineInputs, price \in TwoPrices, quantity \in Quantities :
          Add("c2", line[1], price, quantity, line[2])
    \/ \E line \in CartLineInputs : Remove("c1", line[1], line[2])
    \/ \E line \in WishlistLineInputs : Remove("c2", line[1], line[2])
    \/ \E line \in CartLineInputs : RemoveSingle("c1", line[1], line[2])
    \/ \E line \in WishlistLineInputs : RemoveSingle("c2", line[1], line[2])
    \/ Clear("c1")
    \/ Clear("c2")
    \/ RequestEnd
    \/ \E cat \in SUBSET Products : CatalogChange(cat)

SpecTwoKeys == Init /\ [][NextTwoKeys]_vars

----------------------------------------------------------------------------
(* Two requests of one session at once: c1 and c2 are built from the same  *)
(* session under the same session key and their calls interleave           *)

SharedLineInputs == { <<1, <<>>>>, <<2, <<>>>> }

NextShared ==
    \/ Construct("c1", DefaultSessionKey)
    \/ Construct("c2", DefaultSessionKey)
    \/ \E c \in {"c1", "c2"}, line \in SharedLineInputs,
          price \in TwoPrices, quantity \in Quantities :
          Add(c, line[1], price, quantity, line[2])
    \/ \E c \in {"c1", "c2"}, line \in SharedLineInputs : Remove(c, line[1], line[2])
    \/ \E c \in {"c1", "c2"}, line \in SharedLineInputs : RemoveSingle(c, line[1], line[2])
    \/ \E c \in {"c1", "c2"} : Clear(c)
    \/ RequestEnd
    \/ \E cat \in SUBSET Products : CatalogChange(cat)

SpecShared == Init /\ [][NextShared]_vars

----------------------------------------------------------------------------
(* A Cart built from a session it did not write itself: session is the      *)
(* argument of Cart.__init__, and the text under the key is whatever an     *)
(* earlier writer left there; here one record, of any quantity             *)

StoredQuantities == {-1, 0, 1}

StoredTexts ==
    { sj_dumps(<<[key   |-> <<<<"_pk", 1>>>>,
                  value |-> [quantity |-> quantity,
                             price    |-> [cents |-> 550, exact |-> TRUE]]]>>) :
        quantity \in StoredQuantities }

InitStored ==
    /\ session \in {Put(EmptyDict, DefaultSessionKey, text) : text \in StoredTexts}
    /\ modified = FALSE
    /\ carts = EmptyDict
    /\ catalog = Products
    /\ last = Call("start", "", FALSE)

SpecStored == InitStored /\ [][Next]_vars

----------------------------------------------------------------------------
(* Properties *)

\* the Cart instance of the request and the session key it uses
TheCart == carts["c1"]
Live == "c1" \in DOMAIN carts
Stored == session[DefaultSessionKey]

\* the line key add / remove / remove_single are to address
LineKey(product, kargs) == _dict2key(DictSet(kargs, "_pk", product))

\* the lines of a cart: key, quantity, price
Lines(items) == {<<k, items[k].quantity, items[k].price>> : k \in DOMAIN items}

\* the lines a stored text holds: key, quantity, the Decimal written
StoredLines(text) ==
    {<<_dict2key(text[i].key), text[i].value.quantity, text[i].value.price.of>> :
        i \in 1..Len(text)}

\* the stored text holds exactly the lines of items, one record each
Persisted(sess, items) ==
    /\ DefaultSessionKey \in DOMAIN sess
    /\ StoredLines(sess[DefaultSessionKey]) = Lines(items)
    /\ Len(sess[DefaultSessionKey]) = Cardinality(DOMAIN items)

\* the last call was a mutation that returned and changed the cart
Mutated ==
    /\ Live
    /\ last.raised = ""
    /\ \/ last.op \in {"add", "clear"}
       \/ last.op \in {"remove", "remove_single"} /\ last.hit

\* C1 (as claimed): after every mutation, with every product in the catalog,
\* a new Cart built from the session holds exactly the lines of the cart
\* that wrote it: the same keys, each with the same quantity and price.
C1_RoundTrip ==
    (Mutated /\ catalog = Products) =>
        Lines(Cart(session, DefaultSessionKey, catalog)._items_dict)
            = Lines(TheCart._items_dict)

\* C2: right after a mutation that returned and changed the cart, the session
\* holds under the session key exactly the lines the cart now has (keys,
\* quantities, prices), and session.modified is set.
C2_PersistedAfterMutation ==
    Mutated => (Persisted(session, TheCart._items_dict) /\ modified)

C2_Witness ==
    /\ Mutated /\ last.op = "remove"
    /\ TheCart._items_dict # EmptyDict
    /\ Persisted(session, TheCart._items_dict) /\ modified

\* C3: every line of a cart, and every record of a stored text, has a
\* quantity of at least 1.
C3_QuantityAtLeastOne ==
    /\ \A c \in DOMAIN carts : \A k \in DOMAIN carts[c]._items_dict :
          carts[c]._items_dict[k].quantity >= 1
    /\ \A sk \in DOMAIN session : \A i \in 1..Len(session[sk]) :
          session[sk][i].value.quantity >= 1

C3_Witness ==
    /\ Live /\ last.op = "add" /\ last.raised = "ValueError: quantity"
    /\ TheCart._items_dict # EmptyDict
    /\ DefaultSessionKey \in DOMAIN session /\ Stored # <<>>
    /\ C3_QuantityAtLeastOne

\* C4: in every state of a cart, add with quantity n >= 1 on a key the cart
\* holds returns, keeps the set of lines, raises that line's quantity by n,
\* keeps its price whatever price was passed, and leaves every other line as
\* it was.
C4_AddMerges ==
    Live =>
        \A line \in LineInputs, price \in Prices, quantity \in Quantities :
            LET key == LineKey(line[1], line[2])
                old == TheCart._items_dict
                out == add(TheCart, session, modified, line[1], price, quantity, line[2])
                new == out.self._items_dict
            IN  (quantity >= 1 /\ key \in DOMAIN old)
                => /\ out.raised = ""
                   /\ DOMAIN new = DOMAIN old
                   /\ new[key].quantity = old[key].quantity + quantity
                   /\ new[key].price = old[key].price
                   /\ \A k \in DOMAIN old \ {key} : new[k] = old[k]

C4_Witness ==
    /\ Live /\ last.op = "add" /\ last.raised = "" /\ last.hit
    /\ \E k \in DOMAIN TheCart._items_dict : TheCart._items_dict[k].quantity >= 2

\* C5: in every state of a cart, add with quantity < 1 raises the quantity
\* error, whether or not the cart holds the key, and leaves the lines, the
\* session and session.modified as they were.
C5_BadQuantityRejected ==
    Live =>
        \A line \in LineInputs, price \in Prices, quantity \in Quantities :
            LET out == add(TheCart, session, modified, line[1], price, quantity, line[2])
            IN  quantity < 1
                => /\ out.raised = "ValueError: quantity"
                   /\ out.self = TheCart
                   /\ out.session = session
                   /\ out.modified = modified

C5_Witness ==
    /\ Live /\ last.op = "add" /\ last.raised = "ValueError: quantity" /\ last.hit
    /\ ~modified

\* C6 (as claimed): add of a key the cart does not hold, with no price,
\* raises the price error and leaves the lines, the session and
\* session.modified as they were; with a price and quantity n >= 1 it
\* inserts exactly one line, with that quantity and that price.
C6_NewLineAsClaimed ==
    [][\A line \in LineInputs, price \in Prices, quantity \in Quantities :
        LET key == LineKey(line[1], line[2])
            old == TheCart._items_dict
            new == TheCart'._items_dict
        IN  (Add("c1", line[1], price, quantity, line[2]) /\ key \notin DOMAIN old)
            => /\ price = None
                  => /\ last'.raised = "ValueError: price"
                     /\ carts' = carts /\ session' = session /\ modified' = modified
               /\ (price # None /\ quantity >= 1)
                  => /\ last'.raised = ""
                     /\ DOMAIN new = DOMAIN old \cup {key}
                     /\ new[key].quantity = quantity
                     /\ new[key].price = [cents |-> price.cents, exact |-> TRUE]
                     /\ \A k \in DOMAIN old : new[k] = old[k]]_vars

\* C6 (amended): in every state of a cart, add of a key the cart does not
\* hold, with quantity n >= 1: without a price it raises the price error and
\* leaves the lines, the session and session.modified as they were; with a
\* price it returns and inserts exactly one line, with that quantity and that
\* price.  (With a quantity below 1 it is the quantity error that is raised.)
C6_NewLine ==
    Live =>
        \A line \in LineInputs, price \in Prices, quantity \in Quantities :
            LET key == LineKey(line[1], line[2])
                old == TheCart._items_dict
                out == add(TheCart, session, modified, line[1], price, quantity, line[2])
                new == out.self._items_dict
            IN  (key \notin DOMAIN old /\ quantity >= 1)
                => /\ price = None
                      => /\ out.raised = "ValueError: price"
                         /\ out.self = TheCart
                         /\ out.session = session
                         /\ out.modified = modified
                   /\ price # None
                      => /\ out.raised = ""
                         /\ DOMAIN new = DOMAIN old \cup {key}
                         /\ new[key].quantity = quantity
                         /\ new[key].price = [cents |-> price.cents, exact |-> TRUE]
                         /\ \A k \in DOMAIN old : new[k] = old[k]

C6_Witness ==
    /\ Live /\ last.op = "add" /\ last.raised = "ValueError: price" /\ ~last.hit
    /\ TheCart._items_dict # EmptyDict
    /\ ~modified

\* C7: in every state of a cart, remove returns; of a key the cart does not
\* hold it leaves the lines, count, total, the session and session.modified
\* as they were; of a key it holds it deletes that line, whatever its
\* quantity, keeps every other line as it was, and persists.
C7_Remove ==
    Live =>
        \A line \in LineInputs :
            LET key == LineKey(line[1], line[2])
                old == TheCart._items_dict
                out == remove(TheCart, session, modified, line[1], line[2])
                new == out.self._items_dict
            IN  /\ out.raised = ""
                /\ key \notin DOMAIN old
                   => /\ new = old
                      /\ count(out.self) = count(TheCart)
                      /\ total(out.self) = total(TheCart)
                      /\ out.session = session
                      /\ out.modified = modified
                /\ key \in DOMAIN old
                   => /\ DOMAIN new = DOMAIN old \ {key}
                      /\ \A k \in DOMAIN new : new[k] = old[k]
                      /\ Persisted(out.session, new)
                      /\ out.modified

C7_Witness ==
    /\ Live /\ last.op = "remove" /\ last.raised = "" /\ ~last.hit
    /\ TheCart._items_dict # EmptyDict
    /\ ~modified

\* C8 (as claimed): remove_single on a key the cart holds with quantity 1
\* returns, removes the line, lowers unique_count by exactly 1 and persists.
C8_RemoveSingleDropsLastUnit ==
    [][\A line \in LineInputs :
        LET key == LineKey(line[1], line[2])
            old == TheCart._items_dict
            new == TheCart'._items_dict
        IN  (/\ RemoveSingle("c1", line[1], line[2])
             /\ key \in DOMAIN old
             /\ old[key].quantity = 1)
            => /\ last'.raised = ""
               /\ key \notin DOMAIN new
               /\ unique_count(TheCart') = unique_count(TheCart) - 1
               /\ Persisted(session', new)
               /\ modified']_vars

\* the records of the stored text whose product the catalog query returns
Eligible(text, cat) ==
    {i \in 1..Len(text) : DictGet(text[i].key, "_pk") \in cat}

\* C9: a Cart built from a stored text holds exactly one line per stored
\* record whose product the filtered catalog returns, with that record's key
\* and quantity, and no line for any other record; a Cart built from a session
\* without the key is empty.  Construction raises nothing.
C9_Reconciliation ==
    (Live /\ last.op = "init") =>
        /\ last.raised = ""
        /\ IF DefaultSessionKey \in DOMAIN session
           THEN /\ DOMAIN TheCart._items_dict =
                      {_dict2key(Stored[i].key) : i \in Eligible(Stored, catalog)}
                /\ unique_count(TheCart) = Cardinality(Eligible(Stored, catalog))
                /\ \A i \in Eligible(Stored, catalog) :
                      LET line == TheCart._items_dict[_dict2key(Stored[i].key)]
                      IN  /\ line.product = DictGet(Stored[i].key, "_pk")
                          /\ line.quantity = Stored[i].value.quantity
           ELSE TheCart._items_dict = EmptyDict

C9_Witness ==
    /\ Live /\ last.op = "init"
    /\ DefaultSessionKey \in DOMAIN session
    /\ catalog = {1}
    /\ \E i, j \in 1..Len(Stored) :
          /\ DictGet(Stored[i].key, "_pk") = 1
          /\ DictGet(Stored[j].key, "_pk") = 2
    /\ unique_count(TheCart) = Len(Stored) - 1

\* the variant attributes of a line key: its pairs other than _pk
Variant(key) == {key[i] : i \in {j \in 1..Len(key) : key[j][1] # "_pk"}}

Pairs(kargs) == {kargs[i] : i \in 1..Len(kargs)}

\* C10: in every state of a cart, an add that returns, for a product and
\* variant attributes of which the cart holds no line, makes a line of its
\* own: unique_count grows by 1, count by the quantity, and the lines already
\* there stay as they were.  No two lines, and no two stored records, share a
\* key, and two lines of one product differ in their variant attributes.
C10_DistinctVariants ==
    /\ Live =>
        \A line \in LineInputs, price \in Prices, quantity \in Quantities :
            LET old == TheCart._items_dict
                out == add(TheCart, session, modified, line[1], price, quantity, line[2])
                new == out.self._items_dict
            IN  (/\ out.raised = ""
                 /\ ~\E k \in DOMAIN old :
                       old[k].product = line[1] /\ Variant(k) = Pairs(line[2]))
                => /\ unique_count(out.self) = unique_count(TheCart) + 1
                   /\ count(out.self) = count(TheCart) + quantity
                   /\ \A k \in DOMAIN old : k \in DOMAIN new /\ new[k] = old[k]
    /\ \A c \in DOMAIN carts : \A k1, k2 \in DOMAIN carts[c]._items_dict :
          (/\ k1 # k2
           /\ carts[c]._items_dict[k1].product = carts[c]._items_dict[k2].product)
          => Variant(k1) # Variant(k2)
    /\ \A sk \in DOMAIN session : \A i, j \in 1..Len(session[sk]) :
          i # j => _dict2key(session[sk][i].key) # _dict2key(session[sk][j].key)

C10_Witness ==
    /\ Live /\ last.op = "add" /\ last.raised = "" /\ ~last.hit
    /\ unique_count(TheCart) = 2
    /\ count(TheCart) = 2
    /\ \E k1, k2 \in DOMAIN TheCart._items_dict :
          /\ TheCart._items_dict[k1].product = TheCart._items_dict[k2].product
          /\ Variant(k1) = {<<"size", "M">>}
          /\ Variant(k2) = {<<"size", "L">>}

\* the sum of the values of a function, taken over its domain
RECURSIVE SumOf(_)
SumOf(f) ==
    IF DOMAIN f = {} THEN 0
    ELSE LET k == CHOOSE x \in DOMAIN f : TRUE
         IN  f[k] + SumOf([x \in DOMAIN f \ {k} |-> f[x]])

\* the cart of the example: lines 10.00 x 2 and 5.50 x 1, added to an empty cart
ExampleCart ==
    LET c0 == [session_key |-> DefaultSessionKey, _items_dict |-> EmptyDict]
        o1 == add(c0, EmptyDict, FALSE, 1, Text(1000), 2, <<>>)
        o2 == add(o1.self, o1.session, o1.modified, 2, Text(550), 1, <<>>)
    IN  o2.self

\* C12: in every state, for every cart, total is the sum over the lines of
\* price * quantity, and the zero amount for an empty cart, and count is the
\* sum of the lines' quantities; lines 10.00 x 2 and 5.50 x 1 give 25.50 and
\* count 3.
C12_TotalAndCount ==
    /\ \A c \in DOMAIN carts :
          LET items == carts[c]._items_dict
          IN  /\ total(carts[c]).cents =
                    SumOf([k \in DOMAIN items |-> items[k].price.cents * items[k].quantity])
              /\ total(carts[c]).exact = (\A k \in DOMAIN items : items[k].price.exact)
              /\ count(carts[c]) = SumOf([k \in DOMAIN items |-> items[k].quantity])
              /\ items = EmptyDict =>
                    (total(carts[c]) = [cents |-> 0, exact |-> TRUE] /\ count(carts[c]) = 0)
    /\ unique_count(ExampleCart) = 2
    /\ total(ExampleCart) = [cents |-> 2550, exact |-> TRUE]
    /\ count(ExampleCart) = 3

C12_Witness ==
    /\ Live /\ last.op = "add" /\ last.raised = ""
    /\ unique_count(TheCart) = 2
    /\ count(TheCart) = 2
    /\ total(TheCart) = [cents |-> 560, exact |-> TRUE]

\* C14 (as claimed): in every state of a cart, remove_single on a key the
\* cart holds with quantity q > 1 returns, sets that line's quantity to
\* q - 1, keeps the line and its price, leaves every other line as it was and
\* persists; on a key the cart does not hold it returns and changes nothing.
C14_RemoveSingleDecrements ==
    Live =>
        \A line \in LineInputs :
            LET key == LineKey(line[1], line[2])
                old == TheCart._items_dict
                out == remove_single(TheCart, session, modified, line[1], line[2])
                new == out.self._items_dict
            IN  /\ (key \in DOMAIN old /\ old[key].quantity > 1)
                   => /\ out.raised = ""
                      /\ DOMAIN new = DOMAIN old
                      /\ new[key].quantity = old[key].quantity - 1
                      /\ new[key].price = old[key].price
                      /\ \A k \in DOMAIN old \ {key} : new[k] = old[k]
                      /\ Persisted(out.session, new)
                      /\ out.modified
                /\ key \notin DOMAIN old
                   => /\ out.raised = ""
                      /\ out.self = TheCart
                      /\ out.session = session
                      /\ out.modified = modified

\* C15 (as claimed): a line's price is the price passed to the add that
\* created it: add of a new key stores the price of the call, add on a held
\* key and remove_single leave the price of every line as it is, and a Cart
\* reloaded from the session, whatever the catalog then holds, gives each line
\* the price that was written for it.
C15_PriceAtAddTime ==
    /\ Live =>
          \A line \in LineInputs :
              LET key == LineKey(line[1], line[2])
                  old == TheCart._items_dict
                  single == remove_single(TheCart, session, modified, line[1], line[2])
              IN  /\ \A price \in Prices, quantity \in Quantities :
                        LET new == add(TheCart, session, modified, line[1], price,
                                       quantity, line[2]).self._items_dict
                        IN  /\ \A k \in DOMAIN old : k \in DOMAIN new /\ new[k].price = old[k].price
                            /\ (key \in DOMAIN new /\ key \notin DOMAIN old)
                               => new[key].price = [cents |-> price.cents, exact |-> TRUE]
                  /\ \A k \in DOMAIN old \cap DOMAIN single.self._items_dict :
                        single.self._items_dict[k].price = old[k].price
    /\ DefaultSessionKey \in DOMAIN session =>
          \A cat \in SUBSET Products :
              LET loaded == Cart(session, DefaultSessionKey, cat)._items_dict
              IN  \A k \in DOMAIN loaded :
                      \E i \in 1..Len(Stored) :
                          /\ _dict2key(Stored[i].key) = k
                          /\ loaded[k].price = Stored[i].value.price.of

\* C16: building a Cart leaves the session and session.modified exactly as
\* they were, whether the session key is absent, present, or present with
\* records that reconciliation drops; built from a session without the key
\* the cart is empty, and the key enters the session only by a mutation that
\* returns and sets session.modified.
C16_ConstructionNeverWrites ==
    [][/\ last'.op = "init"
          => /\ session' = session
             /\ modified' = modified
             /\ DefaultSessionKey \notin DOMAIN session
                => TheCart'._items_dict = EmptyDict
       /\ (DefaultSessionKey \notin DOMAIN session /\ DefaultSessionKey \in DOMAIN session')
          => /\ last'.op \in {"add", "remove", "clear"}
             /\ last'.raised = ""
             /\ modified']_vars

C16_Witness ==
    /\ Live /\ last.op = "init"
    /\ DefaultSessionKey \in DOMAIN session
    /\ unique_count(TheCart) < Len(Stored)
    /\ ~modified

\* the stored records the cart has no line for: those reconciliation dropped
Dropped ==
    IF Live /\ DefaultSessionKey \in DOMAIN session
    THEN {i \in 1..Len(Stored) : _dict2key(Stored[i].key) \notin DOMAIN TheCart._items_dict}
    ELSE {}

\* the records of a stored text
Records(sess) == {sess[DefaultSessionKey][i] : i \in 1..Len(sess[DefaultSessionKey])}

\* no Cart built from sess, whatever the catalog, has a line out of items
NeverResurrects(sess, items) ==
    \A cat \in SUBSET Products :
        LET loaded == Cart(sess, DefaultSessionKey, cat)._items_dict
        IN  \A k \in DOMAIN loaded :
                k \in DOMAIN items /\ loaded[k].quantity = items[k].quantity

\* C17 (as claimed): on a cart loaded from a text some of whose records were
\* dropped, every mutating call (add, remove, remove_single, clear) leaves a
\* stored text with none of the dropped records.
C17_NextMutationPrunes ==
    \A line \in LineInputs :
        LET pruned(out) == \A i \in Dropped : Stored[i] \notin Records(out.session)
        IN  /\ \A price \in Prices, quantity \in Quantities :
                  pruned(add(TheCart, session, modified, line[1], price, quantity, line[2]))
            /\ pruned(remove(TheCart, session, modified, line[1], line[2]))
            /\ pruned(remove_single(TheCart, session, modified, line[1], line[2]))
            /\ pruned(clear(TheCart, session, modified))

\* C17 (amended): on a cart loaded from a text some of whose records were
\* dropped, a call that writes the session (an add that returns, a remove of
\* a held key, clear) leaves a stored text holding exactly the lines of the
\* cart, so that no later reload, whatever the catalog, brings a dropped
\* record back; a call that raises (a rejected add, every remove_single) or a
\* remove of a key the cart does not hold leaves the stored text, dropped
\* records included, as it was.
C17_WritingCallPrunes ==
    Dropped # {} =>
        \A line \in LineInputs :
            LET key == LineKey(line[1], line[2])
                written(out) ==
                    /\ Persisted(out.session, out.self._items_dict)
                    /\ NeverResurrects(out.session, out.self._items_dict)
                kept(out) == out.session = session /\ out.self = TheCart
                removed == remove(TheCart, session, modified, line[1], line[2])
            IN  /\ \A price \in Prices, quantity \in Quantities :
                      LET added == add(TheCart, session, modified, line[1], price,
                                       quantity, line[2])
                      IN  IF added.raised = "" THEN written(added) ELSE kept(added)
                /\ IF key \in DOMAIN TheCart._items_dict
                   THEN written(removed) ELSE kept(removed)
                /\ kept(remove_single(TheCart, session, modified, line[1], line[2]))
                /\ written(clear(TheCart, session, modified))

C17_Witness ==
    /\ Live /\ last.op = "remove" /\ last.raised = "" /\ ~last.hit
    /\ Dropped # {}
    /\ TheCart._items_dict # EmptyDict

\* C19 (as claimed): no path that builds a line yields a line with a quantity
\* below 1: a Cart just built from the session, stored records of quantity 0
\* or less included, holds only lines with a quantity of at least 1.
C19_NoLineBelowOne ==
    (Live /\ last.op = "init") =>
        \A k \in DOMAIN TheCart._items_dict : TheCart._items_dict[k].quantity >= 1

----------------------------------------------------------------------------
(* Properties of SpecKargs *)

\* the pairs a call's keyword arguments come to once _pk is set
CallPairs(product, kargs) == Pairs(DictSet(kargs, "_pk", product))

\* two calls with the same product and the same set of pairs, in any order
SameLine(line1, line2) ==
    line1[1] = line2[1] /\ CallPairs(line1[1], line1[2]) = CallPairs(line2[1], line2[2])

\* C11, add / remove / reload: where the cart holds the line an add with the
\* pairs in one order made, add and remove with the same pairs in any order
\* address that line, and the key rebuilt from its stored record is its key.
C11_AddRemoveReload ==
    Live =>
        /\ \A line1, line2 \in KargsLineInputs :
              LET key == LineKey(line1[1], line1[2])
                  old == TheCart._items_dict
                  a   == add(TheCart, session, modified, line2[1], None, 1, line2[2])
                  r   == remove(TheCart, session, modified, line2[1], line2[2])
              IN  (SameLine(line1, line2) /\ key \in DOMAIN old)
                  => /\ a.raised = ""
                     /\ DOMAIN a.self._items_dict = DOMAIN old
                     /\ a.self._items_dict[key].quantity = old[key].quantity + 1
                     /\ r.raised = ""
                     /\ DOMAIN r.self._items_dict = DOMAIN old \ {key}
        /\ Mutated =>
              \A k \in DOMAIN TheCart._items_dict :
                  \E i \in 1..Len(Stored) :
                      /\ Pairs(Stored[i].key) = Pairs(k)
                      /\ _dict2key(Stored[i].key) = k

\* C11, remove_single: where the cart holds that line, remove_single with
\* the same pairs in any order returns and addresses it: the line loses one
\* unit, or goes when it had one.
C11_RemoveSingle ==
    Live =>
        \A line1, line2 \in KargsLineInputs :
            LET key == LineKey(line1[1], line1[2])
                old == TheCart._items_dict
                s   == remove_single(TheCart, session, modified, line2[1], line2[2])
                new == s.self._items_dict
            IN  (SameLine(line1, line2) /\ key \in DOMAIN old)
                => /\ s.raised = ""
                   /\ IF old[key].quantity > 1
                      THEN key \in DOMAIN new /\ new[key].quantity = old[key].quantity - 1
                      ELSE key \notin DOMAIN new

\* C11 (as claimed): add, remove and remove_single called with the same
\* product and the same set of variant attribute pairs, in any order, address
\* the same line, and so does the key rebuilt from the stored record.
C11_OrderIndependent == C11_AddRemoveReload /\ C11_RemoveSingle


\* the positions of a key's _pk pairs
PkPairs(key) == {i \in 1..Len(key) : key[i][1] = "_pk"}

\* C20: in every reachable state each line's key has exactly one _pk pair,
\* and it is the primary key of the line's product, also when a caller has
\* passed a _pk of its own to add; every record of a stored text has a _pk in
\* its key object.
C20_KeyProductAgreement ==
    /\ \A c \in DOMAIN carts : \A k \in DOMAIN carts[c]._items_dict :
          /\ Cardinality(PkPairs(k)) = 1
          /\ DictGet(k, "_pk") = carts[c]._items_dict[k].product
    /\ \A sk \in DOMAIN session : \A i \in 1..Len(session[sk]) :
          DictHas(session[sk][i].key, "_pk")

\* a line added with a _pk of the caller's, and stored
C20_Witness ==
    /\ Live /\ last.op = "add" /\ last.raised = ""
    /\ LET key == _dict2key(<<<<"_pk", 1>>, <<"size", "L">>>>)
       IN  /\ key \in DOMAIN TheCart._items_dict
           /\ TheCart._items_dict[key].product = 1
           /\ \E i \in 1..Len(Stored) : _dict2key(Stored[i].key) = key
    /\ C20_KeyProductAgreement

----------------------------------------------------------------------------
(* Properties of SpecTwoKeys *)

\* the product the carts under a session key are given
ProductOf(session_key) == IF session_key = DefaultSessionKey THEN 1 ELSE 2

\* what is stored under every session key but session_key is as it was
OthersUntouched(session_key, old, new) ==
    /\ DOMAIN new \ {session_key} = DOMAIN old \ {session_key}
    /\ \A sk \in DOMAIN old \ {session_key} : new[sk] = old[sk]

\* C13: with two carts of one session under two session keys, no call on one
\* cart (construction, add, remove, remove_single, clear) changes what is
\* stored under the other's key, and a cart, live or reloaded from either
\* key, holds only lines that were added through its key.
C13_IndependentCarts ==
    /\ \A c \in DOMAIN carts :
          LET self == carts[c]
              sk == self.session_key
          IN  /\ \A k \in DOMAIN self._items_dict :
                    self._items_dict[k].product = ProductOf(sk)
              /\ \A line \in LineInputs :
                    /\ \A price \in Prices, quantity \in Quantities :
                          OthersUntouched(sk, session,
                              add(self, session, modified, line[1], price,
                                  quantity, line[2]).session)
                    /\ OthersUntouched(sk, session,
                          remove(self, session, modified, line[1], line[2]).session)
                    /\ OthersUntouched(sk, session,
                          remove_single(self, session, modified, line[1], line[2]).session)
              /\ OthersUntouched(sk, session, clear(self, session, modified).session)
    /\ \A sk \in {DefaultSessionKey, WishlistKey} :
          LET loaded == Cart(session, sk, catalog)._items_dict
          IN  /\ \A k \in DOMAIN loaded : loaded[k].product = ProductOf(sk)
              /\ sk \in DOMAIN session
                 => \A i \in 1..Len(session[sk]) :
                       DictGet(session[sk][i].key, "_pk") = ProductOf(sk)

C13_Witness ==
    /\ DOMAIN carts = {"c1", "c2"}
    /\ last.op = "add" /\ last.raised = ""
    /\ carts["c1"]._items_dict # EmptyDict
    /\ carts["c2"]._items_dict # EmptyDict
    /\ DOMAIN session = {DefaultSessionKey, WishlistKey}
    /\ StoredLines(session[DefaultSessionKey]) = Lines(carts["c1"]._items_dict)
    /\ StoredLines(session[WishlistKey]) = Lines(carts["c2"]._items_dict)


----------------------------------------------------------------------------
(* Properties of SpecShared *)

\* the session as it would be had self been the last to write it
OwnSession(self) == Put(session, self.session_key, cart_serializable(self._items_dict))

\* out is what the call gives on a session no other instance has written, and
\* when it writes, the stored text is the whole of the writer's lines
LastWriteWins(self, out, alone, writes) ==
    /\ out.raised = alone.raised
    /\ out.self = alone.self
    /\ IF writes
       THEN /\ out.raised = ""
            /\ out.session[self.session_key] = cart_serializable(out.self._items_dict)
            /\ out.session = alone.session
       ELSE out.session = session

\* C18: with two carts built from the same session and session key, whatever
\* the other instance has stored since this one was built, a call that writes
\* leaves under the key the complete serialized lines of the instance that
\* made it, nothing of the other's, and every call returns or raises exactly
\* as it would had no other instance written: nothing reports the conflict.
C18_LastWriteWins ==
    \A c \in DOMAIN carts :
        LET self == carts[c]
            held(line) == LineKey(line[1], line[2]) \in DOMAIN self._items_dict
        IN  /\ \A line \in SharedLineInputs :
                  /\ \A price \in TwoPrices, quantity \in Quantities :
                        LastWriteWins(self,
                            add(self, session, modified, line[1], price, quantity, line[2]),
                            add(self, OwnSession(self), modified, line[1], price, quantity, line[2]),
                            quantity >= 1 /\ (held(line) \/ price # None))
                  /\ LastWriteWins(self,
                        remove(self, session, modified, line[1], line[2]),
                        remove(self, OwnSession(self), modified, line[1], line[2]),
                        held(line))
                  /\ LastWriteWins(self,
                        remove_single(self, session, modified, line[1], line[2]),
                        remove_single(self, OwnSession(self), modified, line[1], line[2]),
                        FALSE)
            /\ LastWriteWins(self, clear(self, session, modified),
                             clear(self, OwnSession(self), modified), TRUE)

\* the last add was written by one instance over a line the other one holds
C18_Witness ==
    /\ DOMAIN carts = {"c1", "c2"}
    /\ last.op = "add" /\ last.raised = ""
    /\ \E writer, other \in DOMAIN carts :
          /\ writer # other
          /\ carts[writer]._items_dict # EmptyDict
          /\ Stored = cart_serializable(carts[writer]._items_dict)
          /\ \E k \in DOMAIN carts[other]._items_dict :
                k \notin DOMAIN carts[writer]._items_dict

====
